---- MODULE Spec2Model ----
(***************************************************************************)
(* LocalMesh (src/src/pages/LocalMesh.tsx): two browser pages, each        *)
(* running the LocalMesh component over its own RTCPeerConnection, joined  *)
(* by manual copy and paste of the offer and the answer, then by data      *)
(* channels that carry chat and file frames.                               *)
(*                                                                         *)
(* Text is a sequence of one-character strings, so that JSON.stringify,    *)
(* JSON.parse and String.trim are computed character by character.  A      *)
(* JavaScript value is a record [k, s, n, f]: k its kind, s the characters *)
(* of a string, n a number, f the members of an object in insertion order. *)
(* A byte buffer is a window [f, lo, hi) on the content of file f, and a   *)
(* Blob the sequence of windows it concatenates, adjacent windows merged:  *)
(* two byte sequences are equal exactly when their window lists are.       *)
(***************************************************************************)
EXTENDS Integers, Sequences, FiniteSets, TLC

\* ------------------------------------------------------------------ bounds

\* Inputs to the two pages since the initial state: a UI invocation that
\* changes the state of a page (createOffer, applyAnswer, acceptOffer,
\* startScreenShare, sendFile, a role switch, an edit of the chat input), or
\* a frame sent by a remote endpoint that is not this program.
MaxCalls == 4
\* Frames handed to RTCDataChannel.send, over both pages.
MaxSent == 6

\* ------------------------------------------------------- JavaScript values

Peers == {"A", "B"}

Other(p) == IF p = "A" THEN "B" ELSE "A"

JsUndefined == [k |-> "undefined", s |-> <<>>, n |-> 0, f |-> <<>>]

JsNull == [k |-> "null", s |-> <<>>, n |-> 0, f |-> <<>>]

JsStr(chars) == [k |-> "str", s |-> chars, n |-> 0, f |-> <<>>]

JsNum(x) == [k |-> "num", s |-> <<>>, n |-> x, f |-> <<>>]

JsBool(b) == [k |-> "bool", s |-> <<>>, n |-> IF b THEN 1 ELSE 0, f |-> <<>>]

\* members: a sequence of [key |-> chars, val |-> value]
JsObj(members) == [k |-> "obj", s |-> <<>>, n |-> 0, f |-> members]

Member(key, val) == [key |-> key, val |-> val]

Digits == <<"0", "1", "2", "3", "4", "5", "6", "7", "8", "9">>

IsDigit(c) == \E d \in 1..10 : Digits[d] = c

DigitVal(c) == (CHOOSE d \in 1..10 : Digits[d] = c) - 1

RECURSIVE NatToChars(_)
NatToChars(x) ==
  IF x < 10 THEN <<Digits[x + 1]>>
  ELSE NatToChars(x \div 10) \o <<Digits[(x % 10) + 1]>>

\* JSON.stringify of a string: quotes, with " and \ escaped.
RECURSIVE EscapeChars(_)
EscapeChars(chars) ==
  IF chars = <<>> THEN <<>>
  ELSE LET c == Head(chars)
       IN (IF c = "\"" \/ c = "\\" THEN <<"\\", c>> ELSE <<c>>)
            \o EscapeChars(Tail(chars))

QuoteChars(chars) == <<"\"">> \o EscapeChars(chars) \o <<"\"">>

\* JSON.stringify(value): members in insertion order, no white space; a
\* member whose value is undefined is left out.
RECURSIVE JSONstringify(_)
RECURSIVE StringifyMembers(_, _)
StringifyMembers(members, first) ==
  IF members = <<>> THEN <<>>
  ELSE LET m == Head(members)
       IN IF m.val.k = "undefined" THEN StringifyMembers(Tail(members), first)
          ELSE (IF first THEN <<>> ELSE <<",">>)
                 \o QuoteChars(m.key) \o <<":">> \o JSONstringify(m.val)
                 \o StringifyMembers(Tail(members), FALSE)

JSONstringify(v) ==
  CASE v.k = "str" -> QuoteChars(v.s)
    [] v.k = "num" -> NatToChars(v.n)
    [] v.k = "bool" -> IF v.n = 1 THEN <<"t", "r", "u", "e">>
                       ELSE <<"f", "a", "l", "s", "e">>
    [] v.k = "null" -> <<"n", "u", "l", "l">>
    [] v.k = "obj" -> <<"{">> \o StringifyMembers(v.f, TRUE) \o <<"}">>

\* ------------------------------------------------------------- JSON.parse
\* A parse result is [ok, v, i]: whether a value was read, the value, and
\* the position after it.  The grammar is JSON's without arrays, fractions
\* and the escapes other than \" and \\, which no text of this model uses.

ParseFail == [ok |-> FALSE, v |-> JsUndefined, i |-> 0]

ParseOk(v, i) == [ok |-> TRUE, v |-> v, i |-> i]

RECURSIVE SkipWs(_, _)
SkipWs(t, i) == IF i <= Len(t) /\ t[i] = " " THEN SkipWs(t, i + 1) ELSE i

HasAt(t, i, word) ==
  /\ i + Len(word) - 1 <= Len(t)
  /\ \A j \in 1..Len(word) : t[i + j - 1] = word[j]

\* the characters of a string literal whose opening quote is before i
RECURSIVE ParseStringTail(_, _, _)
ParseStringTail(t, i, acc) ==
  IF i > Len(t) THEN ParseFail
  ELSE IF t[i] = "\"" THEN ParseOk(JsStr(acc), i + 1)
  ELSE IF t[i] = "\\"
    THEN IF i + 1 <= Len(t) /\ (t[i + 1] = "\"" \/ t[i + 1] = "\\")
         THEN ParseStringTail(t, i + 2, Append(acc, t[i + 1]))
         ELSE ParseFail
  ELSE ParseStringTail(t, i + 1, Append(acc, t[i]))

RECURSIVE ParseDigits(_, _, _)
ParseDigits(t, i, acc) ==
  IF i <= Len(t) /\ IsDigit(t[i])
  THEN ParseDigits(t, i + 1, acc * 10 + DigitVal(t[i]))
  ELSE ParseOk(JsNum(acc), i)

\* a later member with the same key replaces the earlier one
PutMember(members, key, val) ==
  IF \E j \in 1..Len(members) : members[j].key = key
  THEN [j \in 1..Len(members) |->
          IF members[j].key = key THEN Member(key, val) ELSE members[j]]
  ELSE Append(members, Member(key, val))

RECURSIVE ParseValue(_, _)
RECURSIVE ParseMembers(_, _, _)
ParseMembers(t, i0, acc) ==
  LET i == SkipWs(t, i0)
  IN IF i > Len(t) \/ t[i] # "\"" THEN ParseFail
     ELSE LET key == ParseStringTail(t, i + 1, <<>>)
          IN IF ~key.ok THEN ParseFail
             ELSE LET c == SkipWs(t, key.i)
                  IN IF c > Len(t) \/ t[c] # ":" THEN ParseFail
                     ELSE LET val == ParseValue(t, c + 1)
                          IN IF ~val.ok THEN ParseFail
                             ELSE LET e == SkipWs(t, val.i)
                                      got == PutMember(acc, key.v.s, val.v)
                                  IN IF e > Len(t) THEN ParseFail
                                     ELSE IF t[e] = "}" THEN ParseOk(JsObj(got), e + 1)
                                     ELSE IF t[e] = "," THEN ParseMembers(t, e + 1, got)
                                     ELSE ParseFail

ParseValue(t, i0) ==
  LET i == SkipWs(t, i0)
  IN IF i > Len(t) THEN ParseFail
     ELSE IF t[i] = "{"
       THEN LET j == SkipWs(t, i + 1)
            IN IF j <= Len(t) /\ t[j] = "}" THEN ParseOk(JsObj(<<>>), j + 1)
               ELSE ParseMembers(t, i + 1, <<>>)
     ELSE IF t[i] = "\"" THEN ParseStringTail(t, i + 1, <<>>)
     ELSE IF t[i] = "0" THEN ParseOk(JsNum(0), i + 1)
     ELSE IF IsDigit(t[i]) THEN ParseDigits(t, i, 0)
     ELSE IF HasAt(t, i, <<"n", "u", "l", "l">>) THEN ParseOk(JsNull, i + 4)
     ELSE IF HasAt(t, i, <<"t", "r", "u", "e">>) THEN ParseOk(JsBool(TRUE), i + 4)
     ELSE IF HasAt(t, i, <<"f", "a", "l", "s", "e">>) THEN ParseOk(JsBool(FALSE), i + 5)
     ELSE ParseFail

\* JSON.parse(text): [ok, v]; ok FALSE is the SyntaxError it throws.
JSONparse(t) ==
  LET r == ParseValue(t, 1)
  IN IF r.ok /\ SkipWs(t, r.i) = Len(t) + 1
     THEN [ok |-> TRUE, v |-> r.v]
     ELSE [ok |-> FALSE, v |-> JsUndefined]

\* v.key: [thrown, v]; reading a property of null or undefined throws a
\* TypeError, of any other primitive gives undefined.
GetProp(v, key) ==
  IF v.k = "null" \/ v.k = "undefined"
  THEN [thrown |-> TRUE, v |-> JsUndefined]
  ELSE IF v.k = "obj" /\ \E j \in 1..Len(v.f) : v.f[j].key = key
  THEN [thrown |-> FALSE,
        v |-> v.f[CHOOSE j \in 1..Len(v.f) : v.f[j].key = key].val]
  ELSE [thrown |-> FALSE, v |-> JsUndefined]

\* v === "chars"
IsString(v, chars) == v.k = "str" /\ v.s = chars

\* String.prototype.trim
RECURSIVE TrimLeft(_)
TrimLeft(chars) ==
  IF chars # <<>> /\ Head(chars) = " " THEN TrimLeft(Tail(chars)) ELSE chars

RECURSIVE TrimRight(_)
TrimRight(chars) ==
  IF chars # <<>> /\ chars[Len(chars)] = " "
  THEN TrimRight(SubSeq(chars, 1, Len(chars) - 1))
  ELSE chars

\* a trim that removes nothing
TrimNothing(chars) == chars

Trim(chars) == TrimRight(TrimLeft(chars))

\* ------------------------------------------------------------ byte buffers

\* File inputs of sendFile: empty, shorter than a chunk, exactly one chunk,
\* one byte more than a chunk, and several chunks.
FileIds == {"e", "s", "c", "d", "m"}

FileSize(id) ==
  CASE id = "e" -> 0
    [] id = "s" -> 100
    [] id = "c" -> 16 * 1024
    [] id = "d" -> 16 * 1024 + 1
    [] id = "m" -> 40000

FileName(id) == <<id>>

FileType(id) == IF id = "e" THEN <<>> ELSE <<"b">>

Window(id, lo, hi) == [f |-> id, lo |-> lo, hi |-> hi]

NoBytes == Window("", 0, 0)

ByteLength(w) == w.hi - w.lo

Min(a, b) == IF a < b THEN a ELSE b

\* file.arrayBuffer(): the whole content of the file
ArrayBufferOf(id) == Window(id, 0, FileSize(id))

\* a slice that stops one byte short of its end
SliceDropsLast(w, begin, end) ==
  LET b == Min(begin, ByteLength(w))
      e == Min(end, ByteLength(w))
  IN IF e <= b THEN Window(w.f, w.lo + b, w.lo + b)
     ELSE Window(w.f, w.lo + b, w.lo + e - 1)

\* ArrayBuffer.prototype.slice(begin, end) for 0 <= begin: both ends are
\* clamped to the length, and an end before the begin gives no bytes.
Slice(w, begin, end) ==
  LET b == Min(begin, ByteLength(w))
      e == Min(end, ByteLength(w))
  IN IF e <= b THEN Window(w.f, w.lo + b, w.lo + b)
     ELSE Window(w.f, w.lo + b, w.lo + e)

\* new Blob(parts): the bytes of the parts, one after the other
RECURSIVE Blob(_)
Blob(parts) ==
  IF parts = <<>> THEN <<>>
  ELSE LET rest == Blob(SubSeq(parts, 1, Len(parts) - 1))
           w == parts[Len(parts)]
       IN IF ByteLength(w) = 0 THEN rest
          ELSE IF rest # <<>> /\ rest[Len(rest)].f = w.f /\ rest[Len(rest)].hi = w.lo
          THEN [rest EXCEPT ![Len(rest)].hi = w.hi]
          ELSE Append(rest, w)

\* the bytes of a whole file, as a Blob
FileBytes(id) == Blob(<<ArrayBufferOf(id)>>)

\* ------------------------------------------------------------ wire frames

T_t == <<"t">>
T_chat == <<"c", "h", "a", "t">>
T_text == <<"t", "e", "x", "t">>
T_fileMeta == <<"f", "i", "l", "e", "-", "m", "e", "t", "a">>
T_fileEnd == <<"f", "i", "l", "e", "-", "e", "n", "d">>
T_meta == <<"m", "e", "t", "a">>
T_name == <<"n", "a", "m", "e">>
T_size == <<"s", "i", "z", "e">>
T_type == <<"t", "y", "p", "e">>
T_sdp == <<"s", "d", "p">>
T_offer == <<"o", "f", "f", "e", "r">>
T_answer == <<"a", "n", "s", "w", "e", "r">>

\* { t: "chat", text }
ChatPayload(text) ==
  JsObj(<<Member(T_t, JsStr(T_chat)), Member(T_text, JsStr(text))>>)

\* { t: "file-meta", meta: { name, size, type } }
MetaPayload(id) ==
  JsObj(<<Member(T_t, JsStr(T_fileMeta)),
          Member(T_meta, JsObj(<<Member(T_name, JsStr(FileName(id))),
                                 Member(T_size, JsNum(FileSize(id))),
                                 Member(T_type, JsStr(FileType(id)))>>))>>)

\* { t: "file-end" }
EndPayload == JsObj(<<Member(T_t, JsStr(T_fileEnd))>>)

\* A frame on a data channel: text or binary.  from and call are not on the
\* wire: they record who handed the frame to the channel ("A", "B", or "x"
\* for an endpoint that is not this program) and the number of the sendFile
\* invocation that did (0: none).
TextFrame(chars, from, call) ==
  [bin |-> FALSE, text |-> chars, bytes |-> NoBytes, from |-> from, call |-> call]

BinaryFrame(w, from, call) ==
  [bin |-> TRUE, text |-> <<>>, bytes |-> w, from |-> from, call |-> call]

\* Frames of an endpoint that is not this program: plain text, text that is
\* JSON but no envelope, an envelope with a tag this program does not know,
\* a file-meta without its meta, and file frames without a sendFile.
ForeignFrames ==
  { TextFrame(<<"h", "i">>, "x", 0),
    TextFrame(<<"4", "2">>, "x", 0),
    TextFrame(<<"n", "u", "l", "l">>, "x", 0),
    TextFrame(JSONstringify(JsObj(<<Member(T_t, JsStr(<<"p">>))>>)), "x", 0),
    TextFrame(JSONstringify(JsObj(<<Member(T_t, JsStr(T_fileMeta))>>)), "x", 0),
    TextFrame(JSONstringify(JsObj(<<Member(T_t, JsStr(T_fileMeta)),
                                    Member(T_meta, JsObj(<<Member(T_size, JsNum(5))>>))>>)),
              "x", 0),
    TextFrame(JSONstringify(EndPayload), "x", 0),
    BinaryFrame(Window("x", 0, 5), "x", 0) }

\* Texts typed into the chat input.
ChatTexts == { <<" ">>, <<"a">>, <<"b">> }

\* ------------------------------------------------------------------ state

VARIABLES
  \* the component's state and refs, per page
  role,            \* useState role: "host" | "guest"
  dataChannelRef,  \* "null", or the page that created the channel held
  localOffer,      \* useState localOffer: text
  localAnswer,     \* useState localAnswer: text
  remoteOffer,     \* useState remoteOffer: the text of the offer box
  remoteAnswer,    \* useState remoteAnswer: the text of the answer box
  connected,       \* useState connected
  messages,        \* useState messages: sequence of [from, text]
  outgoingText,    \* useState outgoingText: text
  sendingRef,      \* [open, buffer, size]; open FALSE is null
  \* what the component hands to its collaborators, per page
  toast,           \* the last toast shown
  downloads,       \* the Blobs of the links clicked, in order
  \* invocations suspended at an await, per page
  pcChain,         \* awaiting an operation of the connection, in call order
  iceWaiters,      \* awaiting icegatheringstatechange, in listener order
  sendFiles,       \* sendFile invocations: [file, ch, i, at, call]
  screenPrompts,   \* startScreenShare invocations awaiting getDisplayMedia
  tracks,          \* tracks added by pc.addTrack
  \* the RTCPeerConnection of each page
  signalingState, pcLocal, pcRemote, iceGatheringState, connectionState,
  \* the data channels, named by the page that created them
  chanState,       \* readyState: "none" before createDataChannel
  announced,       \* whether ondatachannel has fired at the other page
  created,         \* how many times each page has called pc.createDataChannel
  net,             \* net[c][p]: frames on channel c in flight to page p
  \* history
  calls,           \* the inputs counted by MaxCalls
  sent,            \* sent[p]: the frames page p handed to send, in order
  delivered        \* delivered[p]: the frames onmessage handled at p

progVars == <<role, dataChannelRef, localOffer, localAnswer, remoteOffer,
              remoteAnswer, connected,
              messages, outgoingText, sendingRef, toast, downloads>>

taskVars == <<pcChain, iceWaiters, sendFiles, screenPrompts, tracks>>

pcVars == <<signalingState, pcLocal, pcRemote, iceGatheringState, connectionState>>

chanVars == <<chanState, announced, created, net>>

histVars == <<calls, sent, delivered>>

vars == <<progVars, taskVars, pcVars, chanVars, histVars>>

NoTransfer == [open |-> FALSE, buffer |-> <<>>, size |-> JsUndefined]

\* a session description held by a connection: none, or an offer or answer
\* generated by page owner, with a data channel section or not, with the
\* candidates of a finished gathering or not
NoDesc == [type |-> "none", owner |-> "", data |-> FALSE, cand |-> FALSE]

Desc(type, owner, data, cand) ==
  [type |-> type, owner |-> owner, data |-> data, cand |-> cand]

\* the pending and the current description of one side of a connection
NoDescs == [pend |-> NoDesc, cur |-> NoDesc]

\* what pc.localDescription and pc.remoteDescription read: the pending
\* description, or the current one when none is pending
Effective(d) == IF d.pend.type # "none" THEN d.pend ELSE d.cur

\* The two pages of a session as the index page opens them (part_000,
\* 48-52): A at /local, B at /local#join.
Init ==
  /\ role = [p \in Peers |-> IF p = "A" THEN "host" ELSE "guest"]
  /\ dataChannelRef = [p \in Peers |-> "null"]
  /\ localOffer = [p \in Peers |-> <<>>]
  /\ localAnswer = [p \in Peers |-> <<>>]
  /\ remoteOffer = [p \in Peers |-> <<>>]
  /\ remoteAnswer = [p \in Peers |-> <<>>]
  /\ connected = [p \in Peers |-> FALSE]
  /\ messages = [p \in Peers |-> <<>>]
  /\ outgoingText = [p \in Peers |-> <<>>]
  /\ sendingRef = [p \in Peers |-> NoTransfer]
  /\ toast = [p \in Peers |-> ""]
  /\ downloads = [p \in Peers |-> <<>>]
  /\ pcChain = [p \in Peers |-> <<>>]
  /\ iceWaiters = [p \in Peers |-> <<>>]
  /\ sendFiles = [p \in Peers |-> <<>>]
  /\ screenPrompts = [p \in Peers |-> 0]
  /\ tracks = [p \in Peers |-> 0]
  /\ signalingState = [p \in Peers |-> "stable"]
  /\ pcLocal = [p \in Peers |-> NoDescs]
  /\ pcRemote = [p \in Peers |-> NoDescs]
  /\ iceGatheringState = [p \in Peers |-> "new"]
  /\ connectionState = [p \in Peers |-> "new"]
  /\ chanState = [c \in Peers |-> "none"]
  /\ announced = [c \in Peers |-> FALSE]
  /\ created = [p \in Peers |-> 0]
  /\ net = [c \in Peers |-> [p \in Peers |-> <<>>]]
  /\ calls = 0
  /\ sent = [p \in Peers |-> <<>>]
  /\ delivered = [p \in Peers |-> <<>>]

\* ------------------------------------------------ the receive path (108-139)

\* a chunk size of 16 000 bytes
chunkSizeDecimal == 16 * 1000

\* const chunkSize (206)
chunkSize == 16 * 1024

ChatEntry(from, text) == [from |-> from, text |-> text]

\* ch.onmessage works on cur = [messages, sendingRef, downloads, toast] of
\* its page; each branch gives what it leaves of them.

\* the catch (131-134): the whole text becomes a chat entry of the peer
fallback(cur, fr) ==
  [cur EXCEPT !.messages = Append(@, ChatEntry("peer", JsStr(fr.text)))]

\* a chat branch that puts the newest entry first
onChatPrepends(cur, msg) ==
  [cur EXCEPT !.messages = <<ChatEntry("peer", GetProp(msg, T_text).v)>> \o @]

\* a chat branch that also abandons the transfer being received
onChatAbandonsTransfer(cur, msg) ==
  [cur EXCEPT !.messages = Append(@, ChatEntry("peer", GetProp(msg, T_text).v)),
              !.sendingRef = NoTransfer]

\* a chat branch that starts the log afresh
onChatReplaces(cur, msg) ==
  [cur EXCEPT !.messages = <<ChatEntry("peer", GetProp(msg, T_text).v)>>]

\* msg.t === "chat" (113-114)
onChat(cur, msg) ==
  [cur EXCEPT !.messages = Append(@, ChatEntry("peer", GetProp(msg, T_text).v))]

\* a file-meta branch that keeps the chunks buffered so far
onFileMetaKeepsBuffer(cur, msg, fr) ==
  LET size == GetProp(GetProp(msg, T_meta).v, T_size)
  IN IF size.thrown THEN fallback(cur, fr)
     ELSE [cur EXCEPT !.sendingRef =
             [open |-> TRUE, buffer |-> cur.sendingRef.buffer, size |-> size.v]]

\* msg.t === "file-meta" (115-116); msg.meta.size throws when msg.meta is
\* undefined or null
onFileMeta(cur, msg, fr) ==
  LET size == GetProp(GetProp(msg, T_meta).v, T_size)
  IN IF size.thrown THEN fallback(cur, fr)
     ELSE [cur EXCEPT !.sendingRef = [open |-> TRUE, buffer |-> <<>>, size |-> size.v]]

\* a file-end branch that builds a file whether a transfer is open or not
onFileEndAlways(cur) ==
  [cur EXCEPT !.downloads = Append(@, Blob(cur.sendingRef.buffer)),
              !.toast = "Fichier recu",
              !.sendingRef = NoTransfer]

\* msg.t === "file-end" (117-130)
onFileEnd(cur) ==
  IF cur.sendingRef.open
  THEN [cur EXCEPT !.downloads = Append(@, Blob(cur.sendingRef.buffer)),
                   !.toast = "Fichier recu",
                   !.sendingRef = NoTransfer]
  ELSE cur

\* an ArrayBuffer branch that ignores a chunk when no transfer is open
onArrayBufferNeedsMeta(cur, fr) ==
  IF cur.sendingRef.open
  THEN [cur EXCEPT !.sendingRef.buffer = Append(@, fr.bytes)]
  ELSE cur

\* data instanceof ArrayBuffer (135-138)
onArrayBuffer(cur, fr) ==
  LET entry == IF cur.sendingRef.open THEN cur.sendingRef
               ELSE [open |-> TRUE, buffer |-> <<>>, size |-> JsNum(0)]
  IN [cur EXCEPT !.sendingRef = [entry EXCEPT !.buffer = Append(@, fr.bytes)]]

\* ch.onmessage (108-139).  A binary frame is delivered as an ArrayBuffer.
onmessage(cur, fr) ==
  IF ~fr.bin
  THEN LET parsed == JSONparse(fr.text)
           t == GetProp(parsed.v, T_t)
       IN IF ~parsed.ok \/ t.thrown THEN fallback(cur, fr)
          ELSE IF IsString(t.v, T_chat) THEN onChat(cur, parsed.v)
          ELSE IF IsString(t.v, T_fileMeta) THEN onFileMeta(cur, parsed.v, fr)
          ELSE IF IsString(t.v, T_fileEnd) THEN onFileEnd(cur)
          ELSE cur
  ELSE onArrayBuffer(cur, fr)

\* whether page p holds an endpoint of channel c with its handlers wired
Wired(p, c) == IF p = c THEN chanState[c] # "none" ELSE announced[c]

\* A message event of channel c at page p.
OnMessage(p, c) ==
  /\ Wired(p, c)
  /\ chanState[c] = "open"
  /\ net[c][p] # <<>>
  /\ LET fr == Head(net[c][p])
         after == onmessage([messages |-> messages[p], sendingRef |-> sendingRef[p],
                             downloads |-> downloads[p], toast |-> toast[p]], fr)
     IN /\ messages' = [messages EXCEPT ![p] = after.messages]
        /\ sendingRef' = [sendingRef EXCEPT ![p] = after.sendingRef]
        /\ downloads' = [downloads EXCEPT ![p] = after.downloads]
        /\ toast' = [toast EXCEPT ![p] = after.toast]
        /\ delivered' = [delivered EXCEPT ![p] = Append(@, fr)]
  /\ net' = [net EXCEPT ![c][p] = Tail(@)]
  /\ UNCHANGED <<role, remoteOffer, remoteAnswer, dataChannelRef, localOffer, localAnswer, connected, outgoingText>>
  /\ UNCHANGED <<taskVars, pcVars, chanState, announced, created, calls, sent>>

\* The endpoint of channel c opposite page p is not this program's sendChat
\* or sendFile and sends a frame of its own.
ForeignSend(c, p, fr) ==
  /\ calls < MaxCalls
  /\ chanState[c] = "open"
  /\ net' = [net EXCEPT ![c][p] = Append(@, fr)]
  /\ calls' = calls + 1
  /\ UNCHANGED <<progVars, taskVars, pcVars, chanState, announced, created, sent, delivered>>

\* --------------------------------------------------- the send path (190-213)

\* the frames a sendFile invocation has still to send
RemainingFrames(act) ==
  LET size == FileSize(act.file)
      next == IF act.at = "read" THEN 0 ELSE act.i + chunkSize
  IN IF next >= size THEN 1
     ELSE ((size - next + chunkSize - 1) \div chunkSize) + 1

RECURSIVE SumRemaining(_)
SumRemaining(acts) ==
  IF acts = <<>> THEN 0 ELSE RemainingFrames(Head(acts)) + SumRemaining(Tail(acts))

\* frames the pages have sent or have still to send
Committed ==
  LET of(p) == Len(sent[p]) + SumRemaining(sendFiles[p])
  IN of("A") + of("B")

\* ch.send(frame) on an open channel c by page p
Send(p, c, fr) ==
  /\ net' = [net EXCEPT ![c][Other(p)] = Append(@, fr)]
  /\ sent' = [sent EXCEPT ![p] = Append(@, fr)]

\* a local echo placed at the head of the log
appendLocalFirst(m, text) == <<ChatEntry("me", JsStr(text))>> \o m

\* setMessages((m) => [...m, { from: "me", text }]) (195)
appendLocal(m, text) == Append(m, ChatEntry("me", JsStr(text)))

\* onChange of the chat input
SetOutgoingText(p, text) ==
  /\ outgoingText[p] # text
  /\ calls < MaxCalls
  /\ calls' = calls + 1
  /\ outgoingText' = [outgoingText EXCEPT ![p] = text]
  /\ UNCHANGED <<role, remoteOffer, remoteAnswer, dataChannelRef, localOffer, localAnswer, connected,
                 messages, sendingRef, toast, downloads>>
  /\ UNCHANGED <<taskVars, pcVars, chanVars, sent, delivered>>

\* dataChannelRef.current is set and its readyState is "open"
HoldsOpenChannel(p) ==
  IF dataChannelRef[p] = "null" THEN FALSE ELSE chanState[dataChannelRef[p]] = "open"

SendChat(p) ==
  LET c == dataChannelRef[p]
  IN \/ /\ ~HoldsOpenChannel(p) \/ Trim(outgoingText[p]) = <<>>
        /\ UNCHANGED vars
     \/ /\ HoldsOpenChannel(p)
        /\ Trim(outgoingText[p]) # <<>>
        /\ Committed < MaxSent
        /\ Send(p, c, TextFrame(JSONstringify(ChatPayload(outgoingText[p])), p, 0))
        /\ messages' = [messages EXCEPT ![p] = appendLocal(@, outgoingText[p])]
        /\ outgoingText' = [outgoingText EXCEPT ![p] = <<>>]
        /\ UNCHANGED <<role, remoteOffer, remoteAnswer, dataChannelRef, localOffer, localAnswer, connected,
                       sendingRef, toast, downloads>>
        /\ UNCHANGED <<taskVars, pcVars, chanState, announced, created, calls, delivered>>

\* the number of sendFile invocations of page p that sent their file-meta
RECURSIVE MaxCall(_)
MaxCall(frames) ==
  IF frames = <<>> THEN 0
  ELSE LET m == MaxCall(Tail(frames))
       IN IF Head(frames).call > m THEN Head(frames).call ELSE m

RemoveAt(seq, j) == SubSeq(seq, 1, j - 1) \o SubSeq(seq, j + 1, Len(seq))

\* sendFile(file) returns at once (200-202): no file was chosen, or no
\* channel is held, or the channel held is not open
SendFileReturns(p) ==
  /\ (\E file \in FileIds \cup {"null"} : file = "null" \/ ~HoldsOpenChannel(p)) = TRUE
  /\ UNCHANGED vars

\* sendFile(file) up to its first await (199-205)
SendFile(p, id) ==
  LET c == dataChannelRef[p]
  IN    /\ HoldsOpenChannel(p)
        /\ LET act == [file |-> id, ch |-> c, i |-> 0, at |-> "read",
                       call |-> MaxCall(sent[p]) + 1]
           IN /\ calls < MaxCalls
              /\ Committed + 1 + RemainingFrames(act) <= MaxSent
              /\ calls' = calls + 1
              /\ Send(p, c, TextFrame(JSONstringify(MetaPayload(id)), p, act.call))
              /\ sendFiles' = [sendFiles EXCEPT ![p] = Append(@, act)]
        /\ UNCHANGED <<progVars, pcChain, iceWaiters, screenPrompts, tracks>>
        /\ UNCHANGED <<pcVars, chanState, announced, created, delivered>>

\* a sendFile that ends after its last chunk without sending the file-end
SendFileResumeGivesUp(p, j) ==
  /\ j \in 1..Len(sendFiles[p])
  /\ LET act == sendFiles[p][j]
         buf == ArrayBufferOf(act.file)
         i == IF act.at = "read" THEN 0 ELSE act.i + chunkSize
     IN IF chanState[act.ch] = "open" /\ i < ByteLength(buf)
        THEN /\ Send(p, act.ch, BinaryFrame(Slice(buf, i, i + chunkSize), p, act.call))
             /\ sendFiles' = [sendFiles EXCEPT ![p][j] = [act EXCEPT !.i = i, !.at = "timer"]]
             /\ UNCHANGED toast
        ELSE /\ sendFiles' = [sendFiles EXCEPT ![p] = RemoveAt(@, j)]
             /\ UNCHANGED <<net, sent, toast>>
  /\ UNCHANGED <<role, remoteOffer, remoteAnswer, dataChannelRef, localOffer, localAnswer, connected,
                 messages, outgoingText, sendingRef, downloads>>
  /\ UNCHANGED <<pcChain, iceWaiters, screenPrompts, tracks>>
  /\ UNCHANGED <<pcVars, chanState, announced, created, calls, delivered>>

\* sendFile from the end of one await to the next await or to its end
\* (205-212): the file is read, or a timer has fired.  send throws on a
\* channel that is not open, and nothing catches it: the invocation ends.
SendFileResume(p, j) ==
  /\ j \in 1..Len(sendFiles[p])
  /\ LET act == sendFiles[p][j]
         buf == ArrayBufferOf(act.file)
         i == IF act.at = "read" THEN 0 ELSE act.i + chunkSize
     IN IF chanState[act.ch] # "open"
        THEN /\ sendFiles' = [sendFiles EXCEPT ![p] = RemoveAt(@, j)]
             /\ UNCHANGED <<net, sent, toast>>
        ELSE IF i < ByteLength(buf)
        THEN /\ Send(p, act.ch, BinaryFrame(Slice(buf, i, i + chunkSize), p, act.call))
             /\ sendFiles' = [sendFiles EXCEPT ![p][j] = [act EXCEPT !.i = i, !.at = "timer"]]
             /\ UNCHANGED toast
        ELSE /\ Send(p, act.ch, TextFrame(JSONstringify(EndPayload), p, act.call))
             /\ sendFiles' = [sendFiles EXCEPT ![p] = RemoveAt(@, j)]
             /\ toast' = [toast EXCEPT ![p] = "Fichier envoye"]
  /\ UNCHANGED <<role, remoteOffer, remoteAnswer, dataChannelRef, localOffer, localAnswer, connected,
                 messages, outgoingText, sendingRef, downloads>>
  /\ UNCHANGED <<pcChain, iceWaiters, screenPrompts, tracks>>
  /\ UNCHANGED <<pcVars, chanState, announced, created, calls, delivered>>

\* -------------------------------------------- the connection (the browser)

TypeChars(type) == IF type = "offer" THEN T_offer ELSE T_answer

\* The SDP text of a description: the page that generated it, its data
\* channel section, its candidates.
SdpChars(d) ==
  <<"v", d.owner, IF d.data THEN "d" ELSE "-", IF d.cand THEN "c" ELSE "-">>

SdpOk(chars) ==
  /\ Len(chars) = 4
  /\ chars[1] = "v"
  /\ chars[2] \in Peers
  /\ chars[3] \in {"d", "-"}
  /\ chars[4] \in {"c", "-"}

SdpDesc(type, chars) == Desc(type, chars[2], chars[3] = "d", chars[4] = "c")

\* the RTCSessionDescription as JSON.stringify sees it: { type, sdp }
DescJs(d) ==
  JsObj(<<Member(T_type, JsStr(TypeChars(d.type))), Member(T_sdp, JsStr(SdpChars(d)))>>)

\* pc.localDescription: null before any description is set; its SDP holds
\* the candidates gathered so far
LocalDescription(p) ==
  LET d == Effective(pcLocal[p])
  IN IF d.type = "none" THEN JsNull
     ELSE DescJs([d EXCEPT !.cand = (iceGatheringState[p] = "complete")])

\* The conversion of a JavaScript value to RTCSessionDescriptionInit, as
\* setRemoteDescription applies it to its argument: [ok, type, sdp]; ok
\* FALSE is the TypeError of a value with no type of the enumeration.
DescInit(v) ==
  LET type == GetProp(v, T_type)
      sdp == GetProp(v, T_sdp)
  IN IF v.k = "obj" /\ (IsString(type.v, T_offer) \/ IsString(type.v, T_answer))
     THEN [ok |-> TRUE,
           type |-> IF IsString(type.v, T_offer) THEN "offer" ELSE "answer",
           sdp |-> IF sdp.v.k = "str" THEN sdp.v.s ELSE <<>>]
     ELSE [ok |-> FALSE, type |-> "", sdp |-> <<>>]

\* a decoding that takes text JSON.parse rejects for an answer
parseDescriptionLenient(text) ==
  LET parsed == JSONparse(text)
  IN IF parsed.ok THEN DescInit(parsed.v)
     ELSE [ok |-> TRUE, type |-> "answer", sdp |-> text]

\* JSON.parse(text) as RTCSessionDescriptionInit (166, 177), as
\* setRemoteDescription takes it: ok is FALSE when JSON.parse throws or the
\* value is no description
parseDescription(text) ==
  LET parsed == JSONparse(text)
  IN IF parsed.ok THEN DescInit(parsed.v)
     ELSE [ok |-> FALSE, type |-> "", sdp |-> <<>>]

\* an invocation suspended on an operation of the connection
Pending(fn, op, type, sdp) == [fn |-> fn, op |-> op, type |-> type, sdp |-> sdp]

\* The outcome of pc.setRemoteDescription({type, sdp}) at page p:
\* [ok, signalingState, pcLocal, pcRemote].  An answer is accepted only
\* against a local offer; an offer against a local offer rolls that one back.
SetRemoteDescription(p, type, sdp) ==
  LET rejected == [ok |-> FALSE, signalingState |-> signalingState[p],
                   pcLocal |-> pcLocal[p], pcRemote |-> pcRemote[p]]
  IN IF ~SdpOk(sdp) THEN rejected
     ELSE IF type = "offer"
       THEN [ok |-> TRUE, signalingState |-> "have-remote-offer",
             pcLocal |-> [pcLocal[p] EXCEPT !.pend = NoDesc],
             pcRemote |-> [pcRemote[p] EXCEPT !.pend = SdpDesc("offer", sdp)]]
     ELSE IF signalingState[p] = "have-local-offer"
       THEN [ok |-> TRUE, signalingState |-> "stable",
             pcLocal |-> [pend |-> NoDesc, cur |-> pcLocal[p].pend],
             pcRemote |-> [pend |-> NoDesc, cur |-> SdpDesc("answer", sdp)]]
     ELSE rejected

\* The outcome of pc.setLocalDescription({type, sdp}) at page p.
SetLocalDescription(p, type, sdp) ==
  LET rejected == [ok |-> FALSE, signalingState |-> signalingState[p],
                   pcLocal |-> pcLocal[p], pcRemote |-> pcRemote[p]]
  IN IF type = "offer"
     THEN IF signalingState[p] \in {"stable", "have-local-offer"}
          THEN [ok |-> TRUE, signalingState |-> "have-local-offer",
                pcLocal |-> [pcLocal[p] EXCEPT !.pend = SdpDesc("offer", sdp)],
                pcRemote |-> pcRemote[p]]
          ELSE rejected
     ELSE IF signalingState[p] = "have-remote-offer"
          THEN [ok |-> TRUE, signalingState |-> "stable",
                pcLocal |-> [pend |-> NoDesc, cur |-> SdpDesc("answer", sdp)],
                pcRemote |-> [pend |-> NoDesc, cur |-> pcRemote[p].pend]]
          ELSE rejected

\* Both pages hold, as current descriptions, their own and the other's, and
\* candidates reached at least one of them.
Paired ==
  /\ \A p \in Peers :
       /\ pcLocal[p].cur.type # "none"
       /\ pcRemote[p].cur.owner = Other(p)
       /\ pcRemote[p].cur.type # pcLocal[p].cur.type
  /\ \E p \in Peers : pcRemote[p].cur.cand

\* The connection states the browser may enter from connectionState[p].
NextConnectionStates(p) ==
  CASE connectionState[p] = "new" ->
         IF pcLocal[p].cur.type # "none" /\ pcRemote[p].cur.type # "none"
         THEN {"connecting"} ELSE {}
    [] connectionState[p] = "connecting" ->
         IF Paired THEN {"connected", "failed"} ELSE {"failed"}
    [] connectionState[p] = "connected" -> {"disconnected", "failed"}
    [] connectionState[p] = "disconnected" -> {"connected", "failed"}
    [] OTHER -> {}

\* ------------------------------------------------ the handshake (142-188)

\* a createDataChannelIfNeeded that does not look at dataChannelRef.current
createDataChannelAlways(p) ==
  [dataChannelRef |-> [dataChannelRef EXCEPT ![p] = p],
   chanState |-> [chanState EXCEPT ![p] = "connecting"],
   created |-> [created EXCEPT ![p] = @ + 1]]

\* createDataChannelIfNeeded (142-148): [dataChannelRef, chanState, created]
createDataChannelIfNeeded(p) ==
  IF dataChannelRef[p] = "null"
  THEN [dataChannelRef |-> [dataChannelRef EXCEPT ![p] = p],
        chanState |-> [chanState EXCEPT ![p] = "connecting"],
        created |-> [created EXCEPT ![p] = @ + 1]]
  ELSE [dataChannelRef |-> dataChannelRef, chanState |-> chanState,
        created |-> created]

\* createOffer up to its first await (150-153); the button is on the host tab
CreateOffer(p) ==
  /\ role[p] = "host"
  /\ calls < MaxCalls
  /\ calls' = calls + 1
  /\ LET made == createDataChannelIfNeeded(p)
     IN /\ dataChannelRef' = made.dataChannelRef
        /\ chanState' = made.chanState
        /\ created' = made.created
  /\ pcChain' = [pcChain EXCEPT ![p] = Append(@, Pending("createOffer", "createOffer", "", <<>>))]
  /\ UNCHANGED <<role, remoteOffer, remoteAnswer,
                 localOffer, localAnswer, connected, messages, outgoingText,
                 sendingRef, toast, downloads>>
  /\ UNCHANGED <<iceWaiters, sendFiles, screenPrompts, tracks>>
  /\ UNCHANGED <<pcVars, announced, net, sent, delivered>>

\* the catch blocks (158-161, 169-172, 184-187)
CatchToast(fn) ==
  CASE fn = "createOffer" -> "Erreur: Impossible de creer l'offre."
    [] fn = "applyAnswer" -> "Erreur: Reponse invalide."
    [] fn = "acceptOffer" -> "Erreur: Offre invalide."

\* pc.createOffer() settles (153-154): rejected unless the signaling state
\* is stable or have-local-offer; then setLocalDescription(offer) is called.
CreateOfferSettles(p) ==
  /\ pcChain[p] # <<>>
  /\ Head(pcChain[p]).op = "createOffer"
  /\ IF signalingState[p] \in {"stable", "have-local-offer"}
     THEN LET offer == Desc("offer", p, chanState[p] # "none",
                            iceGatheringState[p] = "complete")
          IN /\ pcChain' = [pcChain EXCEPT ![p] =
                   Append(Tail(@), Pending(Head(@).fn, "setLocal", "offer", SdpChars(offer)))]
             /\ UNCHANGED toast
     ELSE /\ pcChain' = [pcChain EXCEPT ![p] = Tail(@)]
          /\ toast' = [toast EXCEPT ![p] = CatchToast(Head(pcChain[p]).fn)]
  /\ UNCHANGED <<role, remoteOffer, remoteAnswer, dataChannelRef, localOffer, localAnswer, connected, messages,
                 outgoingText, sendingRef, downloads>>
  /\ UNCHANGED <<iceWaiters, sendFiles, screenPrompts, tracks>>
  /\ UNCHANGED <<pcVars, chanVars, histVars>>

\* pc.createAnswer() settles (179-180): rejected unless a remote offer is
\* pending; then setLocalDescription(answer) is called.
CreateAnswerSettles(p) ==
  /\ pcChain[p] # <<>>
  /\ Head(pcChain[p]).op = "createAnswer"
  /\ IF signalingState[p] = "have-remote-offer"
     THEN LET answer == Desc("answer", p, pcRemote[p].pend.data,
                             iceGatheringState[p] = "complete")
          IN /\ pcChain' = [pcChain EXCEPT ![p] =
                   Append(Tail(@), Pending(Head(@).fn, "setLocal", "answer", SdpChars(answer)))]
             /\ UNCHANGED toast
     ELSE /\ pcChain' = [pcChain EXCEPT ![p] = Tail(@)]
          /\ toast' = [toast EXCEPT ![p] = CatchToast(Head(pcChain[p]).fn)]
  /\ UNCHANGED <<role, remoteOffer, remoteAnswer, dataChannelRef, localOffer, localAnswer, connected, messages,
                 outgoingText, sendingRef, downloads>>
  /\ UNCHANGED <<iceWaiters, sendFiles, screenPrompts, tracks>>
  /\ UNCHANGED <<pcVars, chanVars, histVars>>

\* setLocalOffer / setLocalAnswer(JSON.stringify(pc.localDescription)) and
\* the toast (156-157, 182-183), on [localOffer, localAnswer, toast] of page
\* p, reading the description text
publish(cur, fn, text) ==
  IF fn = "createOffer"
  THEN [cur EXCEPT !.localOffer = text, !.toast = "Offre prete"]
  ELSE [cur EXCEPT !.localAnswer = text, !.toast = "Reponse prete"]

RECURSIVE publishAll(_, _, _)
publishAll(cur, fns, text) ==
  IF fns = <<>> THEN cur
  ELSE publishAll(publish(cur, Head(fns), text), Tail(fns), text)

Published(p) == [localOffer |-> localOffer[p], localAnswer |-> localAnswer[p],
                 toast |-> toast[p]]

\* a wait that returns whatever the gathering state is
GatheringCompleteAssumed(p) == TRUE

\* pc.iceGatheringState === "complete" (22): waitForIceGathering returns
\* without listening
GatheringComplete(p) == iceGatheringState[p] = "complete"

\* pc.setLocalDescription(desc) settles (154-157, 180-183).  On success
\* waitForIceGathering (21-32) returns at once when gathering is complete,
\* and the description is published; otherwise it listens for the event.
SetLocalSettles(p) ==
  /\ pcChain[p] # <<>>
  /\ Head(pcChain[p]).op = "setLocal"
  /\ pcChain' = [pcChain EXCEPT ![p] = Tail(@)]
  /\ LET h == Head(pcChain[p])
         out == SetLocalDescription(p, h.type, h.sdp)
     IN /\ signalingState' = [signalingState EXCEPT ![p] = out.signalingState]
        /\ pcLocal' = [pcLocal EXCEPT ![p] = out.pcLocal]
        /\ pcRemote' = [pcRemote EXCEPT ![p] = out.pcRemote]
        /\ IF ~out.ok
           THEN /\ toast' = [toast EXCEPT ![p] = CatchToast(h.fn)]
                /\ UNCHANGED <<localOffer, localAnswer, iceWaiters>>
           ELSE IF GatheringComplete(p)
           THEN LET text == JSONstringify(DescJs([Effective(out.pcLocal) EXCEPT !.cand = TRUE]))
                    after == publish(Published(p), h.fn, text)
                IN /\ localOffer' = [localOffer EXCEPT ![p] = after.localOffer]
                   /\ localAnswer' = [localAnswer EXCEPT ![p] = after.localAnswer]
                   /\ toast' = [toast EXCEPT ![p] = after.toast]
                   /\ UNCHANGED iceWaiters
           ELSE /\ iceWaiters' = [iceWaiters EXCEPT ![p] = Append(@, h.fn)]
                /\ UNCHANGED <<localOffer, localAnswer, toast>>
  /\ UNCHANGED <<role, remoteOffer, remoteAnswer, dataChannelRef, connected, messages, outgoingText,
                 sendingRef, downloads>>
  /\ UNCHANGED <<sendFiles, screenPrompts, tracks>>
  /\ UNCHANGED <<iceGatheringState, connectionState, chanVars, histVars>>

\* Texts a user can paste into the answer or the offer box of page p: what
\* the other page shows, whole or short of its last character, text that is
\* no JSON, JSON that is no description.
PastedTexts(p) ==
  LET shown == {localOffer[Other(p)], localAnswer[Other(p)]} \ {<<>>}
  IN shown \cup { SubSeq(text, 1, Len(text) - 1) : text \in shown }
           \cup { <<"x">>, <<"{", "}">> }

\* applyAnswer up to its first await (164-167), or to its end when
\* JSON.parse throws or setRemoteDescription rejects its argument's type
ApplyAnswer(p, text) ==
  /\ role[p] = "host"
  /\ calls < MaxCalls
  /\ calls' = calls + 1
  /\ remoteAnswer' = [remoteAnswer EXCEPT ![p] = text]
  /\ LET desc == parseDescription(text)
     IN IF desc.ok
        THEN /\ pcChain' = [pcChain EXCEPT ![p] =
                   Append(@, Pending("applyAnswer", "setRemote", desc.type, desc.sdp))]
             /\ UNCHANGED toast
        ELSE /\ toast' = [toast EXCEPT ![p] = CatchToast("applyAnswer")]
             /\ UNCHANGED pcChain
  /\ UNCHANGED <<role, remoteOffer,
                 dataChannelRef, localOffer, localAnswer, connected, messages,
                 outgoingText, sendingRef, downloads>>
  /\ UNCHANGED <<iceWaiters, sendFiles, screenPrompts, tracks>>
  /\ UNCHANGED <<pcVars, chanVars, sent, delivered>>

\* acceptOffer up to its first await (175-178), or to its end likewise
AcceptOffer(p, text) ==
  /\ role[p] = "guest"
  /\ calls < MaxCalls
  /\ calls' = calls + 1
  /\ remoteOffer' = [remoteOffer EXCEPT ![p] = text]
  /\ LET desc == parseDescription(text)
     IN IF desc.ok
        THEN /\ pcChain' = [pcChain EXCEPT ![p] =
                   Append(@, Pending("acceptOffer", "setRemote", desc.type, desc.sdp))]
             /\ UNCHANGED toast
        ELSE /\ toast' = [toast EXCEPT ![p] = CatchToast("acceptOffer")]
             /\ UNCHANGED pcChain
  /\ UNCHANGED <<role, remoteAnswer,
                 dataChannelRef, localOffer, localAnswer, connected, messages,
                 outgoingText, sendingRef, downloads>>
  /\ UNCHANGED <<iceWaiters, sendFiles, screenPrompts, tracks>>
  /\ UNCHANGED <<pcVars, chanVars, sent, delivered>>

\* pc.setRemoteDescription(desc) settles: applyAnswer ends with its toast
\* (167-168), acceptOffer calls createAnswer (178-179).
SetRemoteSettles(p) ==
  /\ pcChain[p] # <<>>
  /\ Head(pcChain[p]).op = "setRemote"
  /\ LET h == Head(pcChain[p])
         out == SetRemoteDescription(p, h.type, h.sdp)
     IN /\ signalingState' = [signalingState EXCEPT ![p] = out.signalingState]
        /\ pcLocal' = [pcLocal EXCEPT ![p] = out.pcLocal]
        /\ pcRemote' = [pcRemote EXCEPT ![p] = out.pcRemote]
        /\ IF ~out.ok
           THEN /\ toast' = [toast EXCEPT ![p] = CatchToast(h.fn)]
                /\ pcChain' = [pcChain EXCEPT ![p] = Tail(@)]
           ELSE IF h.fn = "applyAnswer"
           THEN /\ toast' = [toast EXCEPT ![p] = "Reponse appliquee"]
                /\ pcChain' = [pcChain EXCEPT ![p] = Tail(@)]
           ELSE /\ pcChain' = [pcChain EXCEPT ![p] =
                      Append(Tail(@), Pending(h.fn, "createAnswer", "", <<>>))]
                /\ UNCHANGED toast
  /\ UNCHANGED <<role, remoteOffer, remoteAnswer, dataChannelRef, localOffer, localAnswer, connected, messages,
                 outgoingText, sendingRef, downloads>>
  /\ UNCHANGED <<iceWaiters, sendFiles, screenPrompts, tracks>>
  /\ UNCHANGED <<iceGatheringState, connectionState, chanVars, histVars>>

\* icegatheringstatechange at page p: gathering starts once a local
\* description is set, then completes; on completion every listener of
\* waitForIceGathering (24-30) resolves and its invocation publishes.
IceGatheringChange(p) ==
  \/ /\ iceGatheringState[p] = "new"
     /\ Effective(pcLocal[p]).type # "none"
     /\ iceGatheringState' = [iceGatheringState EXCEPT ![p] = "gathering"]
     /\ UNCHANGED <<progVars, taskVars, signalingState, pcLocal, pcRemote,
                    connectionState, chanVars, histVars>>
  \/ /\ iceGatheringState[p] = "gathering"
     /\ iceGatheringState' = [iceGatheringState EXCEPT ![p] = "complete"]
     /\ iceWaiters' = [iceWaiters EXCEPT ![p] = <<>>]
     /\ LET d == Effective(pcLocal[p])
            text == JSONstringify(IF d.type = "none" THEN JsNull
                                  ELSE DescJs([d EXCEPT !.cand = TRUE]))
            after == publishAll(Published(p), iceWaiters[p], text)
        IN /\ localOffer' = [localOffer EXCEPT ![p] = after.localOffer]
           /\ localAnswer' = [localAnswer EXCEPT ![p] = after.localAnswer]
           /\ toast' = [toast EXCEPT ![p] = after.toast]
     /\ UNCHANGED <<role, remoteOffer, remoteAnswer, dataChannelRef, connected, messages, outgoingText,
                    sendingRef, downloads>>
     /\ UNCHANGED <<pcChain, sendFiles, screenPrompts, tracks>>
     /\ UNCHANGED <<signalingState, pcLocal, pcRemote, connectionState, chanVars, histVars>>

\* a handler that ignores 'disconnected'
onconnectionstatechangeFailedOnly(cur, st) ==
  IF st = "connected" THEN [connected |-> TRUE, toast |-> "Connecte"]
  ELSE IF st = "failed" THEN [connected |-> FALSE, toast |-> "Connexion perdue"]
  ELSE cur

\* pc.onconnectionstatechange (75-84) on cur = [connected, toast] of its
\* page, the connection having entered st
onconnectionstatechange(cur, st) ==
  IF st = "connected" THEN [connected |-> TRUE, toast |-> "Connecte"]
  ELSE IF st = "failed" \/ st = "disconnected"
  THEN [connected |-> FALSE, toast |-> "Connexion perdue"]
  ELSE cur

\* a connection event whose loss of the connection also empties the chat log
\* and abandons the transfer being received
ConnectionStateChangeClears(p, st) ==
  /\ st \in NextConnectionStates(p)
  /\ connectionState' = [connectionState EXCEPT ![p] = st]
  /\ LET after == onconnectionstatechange(
                    [connected |-> connected[p], toast |-> toast[p]], st)
     IN /\ connected' = [connected EXCEPT ![p] = after.connected]
        /\ toast' = [toast EXCEPT ![p] = after.toast]
  /\ messages' = [messages EXCEPT ![p] = IF st = "connecting" THEN @ ELSE <<>>]
  /\ sendingRef' = [sendingRef EXCEPT ![p] = IF st = "connecting" THEN @ ELSE NoTransfer]
  /\ UNCHANGED <<role, remoteOffer, remoteAnswer, dataChannelRef, localOffer, localAnswer,
                 outgoingText, downloads>>
  /\ UNCHANGED <<taskVars, signalingState, pcLocal, pcRemote, iceGatheringState,
                 chanVars, histVars>>

\* connectionstatechange at page p: the browser moves the connection to st
ConnectionStateChange(p, st) ==
  /\ st \in NextConnectionStates(p)
  /\ connectionState' = [connectionState EXCEPT ![p] = st]
  /\ LET after == onconnectionstatechange(
                    [connected |-> connected[p], toast |-> toast[p]], st)
     IN /\ connected' = [connected EXCEPT ![p] = after.connected]
        /\ toast' = [toast EXCEPT ![p] = after.toast]
  /\ UNCHANGED <<role, remoteOffer, remoteAnswer, dataChannelRef, localOffer, localAnswer, messages,
                 outgoingText, sendingRef, downloads>>
  /\ UNCHANGED <<taskVars, signalingState, pcLocal, pcRemote, iceGatheringState,
                 chanVars, histVars>>

\* Channel c opens at the page that created it: ch.onopen (105-107).
ChannelOpen(c) ==
  /\ chanState[c] = "connecting"
  /\ \A p \in Peers : connectionState[p] = "connected"
  /\ chanState' = [chanState EXCEPT ![c] = "open"]
  /\ toast' = [toast EXCEPT ![c] = "Canal pret"]
  /\ UNCHANGED <<role, remoteOffer, remoteAnswer, dataChannelRef, localOffer, localAnswer, connected, messages,
                 outgoingText, sendingRef, downloads>>
  /\ UNCHANGED <<taskVars, pcVars, announced, created, net, histVars>>

\* pc.ondatachannel (86-90) at the other page, then the onopen of its endpoint
DataChannelEvent(c) ==
  /\ chanState[c] = "open"
  /\ ~announced[c]
  /\ announced' = [announced EXCEPT ![c] = TRUE]
  /\ dataChannelRef' = [dataChannelRef EXCEPT ![Other(c)] = c]
  /\ toast' = [toast EXCEPT ![Other(c)] = "Canal pret"]
  /\ UNCHANGED <<role, remoteOffer, remoteAnswer,
                 localOffer, localAnswer, connected, messages,
                 outgoingText, sendingRef, downloads>>
  /\ UNCHANGED <<taskVars, pcVars, chanState, created, net, histVars>>

\* The transport of a failed connection is torn down and closes channel c.
ChannelClose(c) ==
  /\ chanState[c] \in {"connecting", "open"}
  /\ \E p \in Peers : connectionState[p] = "failed"
  /\ chanState' = [chanState EXCEPT ![c] = "closed"]
  /\ UNCHANGED <<progVars, taskVars, pcVars, announced, created, net, histVars>>

\* ------------------------------------------- the rest of the UI (215-231)

\* the "Partager mon ecran" button (291) is not disabled
ShareEnabled(p) ==
  ~(localOffer[p] = <<>> /\ role[p] = "host" /\ ~connected[p] /\ localAnswer[p] = <<>>)

\* startScreenShare up to its await (215-217)
StartScreenShare(p) ==
  /\ ShareEnabled(p)
  /\ calls < MaxCalls
  /\ calls' = calls + 1
  /\ screenPrompts' = [screenPrompts EXCEPT ![p] = @ + 1]
  /\ UNCHANGED <<progVars, pcChain, iceWaiters, sendFiles, tracks>>
  /\ UNCHANGED <<pcVars, chanVars, sent, delivered>>

\* getDisplayMedia settles (217-225): the stream's track is added, or the
\* prompt was refused
ScreenShareSettles(p, granted) ==
  /\ screenPrompts[p] > 0
  /\ screenPrompts' = [screenPrompts EXCEPT ![p] = @ - 1]
  /\ IF granted
     THEN /\ tracks' = [tracks EXCEPT ![p] = @ + 1]
          /\ toast' = [toast EXCEPT ![p] = "Partage d'ecran lance"]
     ELSE /\ toast' = [toast EXCEPT ![p] = "Autorisation refusee"]
          /\ UNCHANGED tracks
  /\ UNCHANGED <<role, remoteOffer, remoteAnswer, dataChannelRef, localOffer, localAnswer, connected, messages,
                 outgoingText, sendingRef, downloads>>
  /\ UNCHANGED <<pcChain, iceWaiters, sendFiles>>
  /\ UNCHANGED <<pcVars, chanVars, histVars>>

\* a role switch that also drops the connected flag
SetRoleResets(p, r) ==
  /\ role[p] # r
  /\ calls < MaxCalls
  /\ calls' = calls + 1
  /\ role' = [role EXCEPT ![p] = r]
  /\ connected' = [connected EXCEPT ![p] = FALSE]
  /\ UNCHANGED <<dataChannelRef, localOffer, localAnswer, remoteOffer, remoteAnswer,
                 messages, outgoingText, sendingRef, toast, downloads>>
  /\ UNCHANGED <<taskVars, pcVars, chanVars, sent, delivered>>

\* onValueChange of the tabs (231)
SetRole(p, r) ==
  /\ role[p] # r
  /\ calls < MaxCalls
  /\ calls' = calls + 1
  /\ role' = [role EXCEPT ![p] = r]
  /\ UNCHANGED <<dataChannelRef, localOffer, localAnswer, remoteOffer, remoteAnswer,
                 connected, messages,
                 outgoingText, sendingRef, toast, downloads>>
  /\ UNCHANGED <<taskVars, pcVars, chanVars, sent, delivered>>

Next ==
  \/ \E p \in Peers : CreateOffer(p)
  \/ \E p \in Peers : CreateOfferSettles(p)
  \/ \E p \in Peers : SetLocalSettles(p)
  \/ \E p \in Peers : \E text \in PastedTexts(p) : ApplyAnswer(p, text)
  \/ \E p \in Peers : \E text \in PastedTexts(p) : AcceptOffer(p, text)
  \/ \E p \in Peers : SetRemoteSettles(p)
  \/ \E p \in Peers : CreateAnswerSettles(p)
  \/ \E p \in Peers : IceGatheringChange(p)
  \/ \E p \in Peers, st \in {"connecting", "connected", "disconnected", "failed"} :
       ConnectionStateChange(p, st)
  \/ \E c \in Peers : ChannelOpen(c)
  \/ \E c \in Peers : DataChannelEvent(c)
  \/ \E c \in Peers : ChannelClose(c)
  \/ \E p \in Peers : StartScreenShare(p)
  \/ \E p \in Peers, granted \in BOOLEAN : ScreenShareSettles(p, granted)
  \/ \E p \in Peers, r \in {"host", "guest"} : SetRole(p, r)
  \/ \E p \in Peers, c \in Peers : OnMessage(p, c)
  \/ \E p \in Peers, c \in Peers, fr \in ForeignFrames : ForeignSend(c, p, fr)
  \/ \E p \in Peers, text \in ChatTexts : SetOutgoingText(p, text)
  \/ \E p \in Peers : SendChat(p)
  \/ \E p \in Peers : SendFileReturns(p)
  \/ \E p \in Peers, id \in FileIds : SendFile(p, id)
  \/ \E p \in Peers, j \in 1..MaxCalls : SendFileResume(p, j)

Spec == Init /\ [][Next]_vars

\* The handshake alone: offers, answers, pastes, role switches and the
\* events of the connection, with no chat, file or screen share.
NextSignaling ==
  \/ \E p \in Peers : CreateOffer(p)
  \/ \E p \in Peers : CreateOfferSettles(p)
  \/ \E p \in Peers : SetLocalSettles(p)
  \/ \E p \in Peers : \E text \in PastedTexts(p) : ApplyAnswer(p, text)
  \/ \E p \in Peers : \E text \in PastedTexts(p) : AcceptOffer(p, text)
  \/ \E p \in Peers : SetRemoteSettles(p)
  \/ \E p \in Peers : CreateAnswerSettles(p)
  \/ \E p \in Peers : IceGatheringChange(p)
  \/ \E p \in Peers, st \in {"connecting", "connected", "disconnected", "failed"} :
       ConnectionStateChange(p, st)
  \/ \E c \in Peers : ChannelOpen(c)
  \/ \E c \in Peers : DataChannelEvent(c)
  \/ \E c \in Peers : ChannelClose(c)
  \/ \E p \in Peers, r \in {"host", "guest"} : SetRole(p, r)

SpecSignaling == Init /\ [][NextSignaling]_vars

\* ------------------------------------------------- an established session
\* The state Spec reaches when A has created its offer, B has accepted it,
\* A has applied B's answer, both connections are connected and A's channel
\* is open at both pages.

OfferOfA == Desc("offer", "A", TRUE, TRUE)

AnswerOfB == Desc("answer", "B", TRUE, TRUE)

Established ==
  /\ role = [p \in Peers |-> IF p = "A" THEN "host" ELSE "guest"]
  /\ dataChannelRef = [p \in Peers |-> "A"]
  /\ localOffer = [p \in Peers |-> IF p = "A" THEN JSONstringify(DescJs(OfferOfA)) ELSE <<>>]
  /\ localAnswer = [p \in Peers |-> IF p = "B" THEN JSONstringify(DescJs(AnswerOfB)) ELSE <<>>]
  /\ remoteOffer = [p \in Peers |-> IF p = "B" THEN localOffer["A"] ELSE <<>>]
  /\ remoteAnswer = [p \in Peers |-> IF p = "A" THEN localAnswer["B"] ELSE <<>>]
  /\ connected = [p \in Peers |-> TRUE]
  /\ messages = [p \in Peers |-> <<>>]
  /\ outgoingText = [p \in Peers |-> <<>>]
  /\ sendingRef = [p \in Peers |-> NoTransfer]
  /\ toast = [p \in Peers |-> "Canal pret"]
  /\ downloads = [p \in Peers |-> <<>>]
  /\ pcChain = [p \in Peers |-> <<>>]
  /\ iceWaiters = [p \in Peers |-> <<>>]
  /\ sendFiles = [p \in Peers |-> <<>>]
  /\ screenPrompts = [p \in Peers |-> 0]
  /\ tracks = [p \in Peers |-> 0]
  /\ signalingState = [p \in Peers |-> "stable"]
  /\ pcLocal = [p \in Peers |->
       [pend |-> NoDesc,
        cur |-> IF p = "A" THEN [OfferOfA EXCEPT !.cand = FALSE]
                ELSE [AnswerOfB EXCEPT !.cand = FALSE]]]
  /\ pcRemote = [p \in Peers |->
       [pend |-> NoDesc, cur |-> IF p = "A" THEN AnswerOfB ELSE OfferOfA]]
  /\ iceGatheringState = [p \in Peers |-> "complete"]
  /\ connectionState = [p \in Peers |-> "connected"]
  /\ chanState = [c \in Peers |-> IF c = "A" THEN "open" ELSE "none"]
  /\ announced = [c \in Peers |-> c = "A"]
  /\ created = [p \in Peers |-> IF p = "A" THEN 1 ELSE 0]
  /\ net = [c \in Peers |-> [p \in Peers |-> <<>>]]
  /\ sent = [p \in Peers |-> <<>>]
  /\ delivered = [p \in Peers |-> <<>>]

\* Two inputs are left to the pages.
InitData == Established /\ calls = MaxCalls - 2

\* Chat and files over the established session.
NextData ==
  \/ \E p \in Peers, c \in Peers : OnMessage(p, c)
  \/ \E p \in Peers, c \in Peers, fr \in ForeignFrames : ForeignSend(c, p, fr)
  \/ \E p \in Peers, text \in ChatTexts : SetOutgoingText(p, text)
  \/ \E p \in Peers : SendChat(p)
  \/ \E p \in Peers : SendFileReturns(p)
  \/ \E p \in Peers, id \in FileIds : SendFile(p, id)
  \/ \E p \in Peers, j \in 1..MaxCalls : SendFileResume(p, j)

SpecData == InitData /\ [][NextData]_vars

\* The same with the event loop's guarantee that a resolved arrayBuffer()
\* and an expired setTimeout(r, 0) (205, 209) resume their sendFile: every
\* suspended invocation is eventually resumed.
SpecDataFair ==
  /\ SpecData
  /\ \A p \in Peers : \A j \in 1..MaxCalls : WF_vars(SendFileResume(p, j))

\* An established session that only receives: frames arrive at its pages
\* while the connection reports its changes of state.
NextEvents ==
  \/ \E p \in Peers, c \in Peers : OnMessage(p, c)
  \/ \E p \in Peers, c \in Peers, fr \in ForeignFrames : ForeignSend(c, p, fr)
  \/ \E p \in Peers, st \in {"connecting", "connected", "disconnected", "failed"} :
       ConnectionStateChange(p, st)
  \/ \E c \in Peers : ChannelClose(c)

SpecEvents == InitData /\ [][NextEvents]_vars

\* ------------------------------------------------------------ file transfer

Last(seq) == seq[Len(seq)]

IsEndFrame(fr) == ~fr.bin /\ fr.text = JSONstringify(EndPayload)

IsMetaFrameOf(fr, id) == ~fr.bin /\ fr.text = JSONstringify(MetaPayload(id))

\* The frames page p has received end with the frames of one sendFile(id) of
\* the other page, from its file-meta to its file-end, and nothing between.
InOrderTransfer(p, id) ==
  /\ delivered[p] # <<>>
  /\ LET seq == delivered[p]
         end == Last(seq)
         OfCall(j) == seq[j].from = end.from /\ seq[j].call = end.call
     IN /\ IsEndFrame(end)
        /\ end.call > 0
        /\ \E i \in 1..Len(seq) :
             /\ IsMetaFrameOf(seq[i], id)
             /\ \A j \in 1..Len(seq) : OfCall(j) <=> j >= i

\* C1: when the frames of a sendFile (file-meta, chunks, file-end) have been
\* delivered in order to the receiver's onmessage, the file it finalized at
\* the file-end is byte for byte the file that was sent, whatever its size
\* (0, less than a chunk, exactly a chunk, several chunks).
C1_FileRoundTrip ==
  \A p \in Peers, id \in FileIds :
    InOrderTransfer(p, id) =>
      /\ downloads[p] # <<>>
      /\ Last(downloads[p]) = FileBytes(id)

\* a file of several chunks has been received whole
C1_Witness ==
  \E p \in Peers :
    /\ InOrderTransfer(p, "m")
    /\ Len(delivered[p]) = 5
    /\ downloads[p] = <<FileBytes("m")>>

\* the text frames on which onmessage opens or closes a transfer
OpensTransfer(fr) ==
  /\ ~fr.bin
  /\ JSONparse(fr.text).ok
  /\ LET msg == JSONparse(fr.text).v
     IN /\ ~GetProp(msg, T_t).thrown
        /\ IsString(GetProp(msg, T_t).v, T_fileMeta)
        /\ ~GetProp(GetProp(msg, T_meta).v, T_size).thrown

\* the chunks among frames i..j of seq, in order
RECURSIVE ChunksOf(_, _, _)
ChunksOf(seq, i, j) ==
  IF i > j THEN <<>>
  ELSE IF seq[j].bin THEN Append(ChunksOf(seq, i, j - 1), seq[j].bytes)
  ELSE ChunksOf(seq, i, j - 1)

\* frame i of seq is a file-meta, frame n a file-end, and no file-meta or
\* file-end lies between them
MetaToEnd(seq, i, n) ==
  /\ i < n
  /\ OpensTransfer(seq[i])
  /\ IsEndFrame(seq[n])
  /\ \A j \in (i + 1)..(n - 1) : ~OpensTransfer(seq[j]) /\ ~IsEndFrame(seq[j])

\* a transfer with chunks in its buffer is open when frame i of seq arrives
OpenBefore(seq, i) ==
  \E j \in 1..(i - 1) :
    /\ seq[j].bin
    /\ ByteLength(seq[j].bytes) > 0
    /\ \A k \in (j + 1)..(i - 1) : ~IsEndFrame(seq[k])

\* C2: a file-meta that arrives while an earlier transfer is open discards
\* the chunks buffered so far: the file finalized at the next file-end holds
\* the bytes of the chunks received after the latest file-meta and no others.
C2_MetaDiscardsOpenTransfer ==
  \A p \in Peers :
    LET seq == delivered[p]
    IN \A i \in 1..Len(seq) :
         MetaToEnd(seq, i, Len(seq)) =>
           /\ downloads[p] # <<>>
           /\ Last(downloads[p]) = Blob(ChunksOf(seq, i + 1, Len(seq)))

\* a file-meta met buffered chunks, and the next file-end finalized a file
\* with bytes in it
C2_Witness ==
  \E p \in Peers :
    LET seq == delivered[p]
    IN \E i \in 1..Len(seq) :
         /\ MetaToEnd(seq, i, Len(seq))
         /\ OpenBefore(seq, i)
         /\ ChunksOf(seq, i + 1, Len(seq)) # <<>>
         /\ Last(downloads[p]) = Blob(ChunksOf(seq, i + 1, Len(seq)))

\* C3: a binary frame that arrives while no transfer is open (no file-meta
\* seen, or after a file-end) is not dropped: it opens a transfer of expected
\* size 0 and its bytes are the first chunk in the buffer.
C3_OrphanChunkBuffered ==
  [][\A p \in Peers :
       (/\ delivered'[p] # delivered[p]
        /\ Last(delivered'[p]).bin
        /\ ~sendingRef[p].open)
       => sendingRef'[p] = [open |-> TRUE,
                            buffer |-> <<Last(delivered'[p]).bytes>>,
                            size |-> JsNum(0)]]_vars

\* a binary frame was the first frame received, or the first after a
\* file-end, and is buffered
C3_Witness ==
  \E p \in Peers :
    LET seq == delivered[p]
    IN /\ seq # <<>>
       /\ Last(seq).bin
       /\ Len(seq) > 1 => IsEndFrame(seq[Len(seq) - 1])
       /\ sendingRef[p].open
       /\ sendingRef[p].size = JsNum(0)
       /\ sendingRef[p].buffer = <<Last(seq).bytes>>

\* ------------------------------------------------------------- text frames

\* the text of frame fr is JSON for an object whose t is "chat", "file-meta"
\* or "file-end"
DecodesToEnvelope(fr) ==
  /\ JSONparse(fr.text).ok
  /\ LET msg == JSONparse(fr.text).v
     IN /\ msg.k = "obj"
        /\ \/ IsString(GetProp(msg, T_t).v, T_chat)
           \/ IsString(GetProp(msg, T_t).v, T_fileMeta)
           \/ IsString(GetProp(msg, T_t).v, T_fileEnd)

\* C4: every text frame received that does not decode to a chat, file-meta
\* or file-end envelope adds exactly one chat entry of the peer whose text is
\* the whole text of the frame; no such frame is dropped silently.
C4_UndecodedTextShown ==
  [][\A p \in Peers :
       (/\ delivered'[p] # delivered[p]
        /\ ~Last(delivered'[p]).bin
        /\ ~DecodesToEnvelope(Last(delivered'[p])))
       => messages'[p] =
            Append(messages[p], ChatEntry("peer", JsStr(Last(delivered'[p]).text)))]_vars

\* ------------------------------------------------------------ the handshake

\* page p has called createOffer: its first statement creates p's channel
CalledCreateOffer(p) == chanState[p] # "none"

\* the setRemoteDescription of an applyAnswer or acceptOffer (fn) of page p
\* settles in this step
RemoteSettlesFor(p, fn) ==
  /\ pcChain[p] # <<>>
  /\ Head(pcChain[p]).fn = fn
  /\ Head(pcChain[p]).op = "setRemote"
  /\ pcChain'[p] # pcChain[p]
  /\ Len(pcChain'[p]) <= Len(pcChain[p])
  /\ SubSeq(pcChain'[p], 1, Len(pcChain[p]) - 1) = Tail(pcChain[p])

\* C5: applyAnswer on a page that has not called createOffer fails with an
\* error and neither applies the remote description nor changes the state of
\* the session.
C5_ApplyAnswerNeedsOffer ==
  [][\A p \in Peers :
       (RemoteSettlesFor(p, "applyAnswer") /\ ~CalledCreateOffer(p))
       => /\ toast'[p] = CatchToast("applyAnswer")
          /\ pcRemote'[p] = pcRemote[p]
          /\ signalingState'[p] = signalingState[p]]_vars

\* page p has published an offer: its createOffer has completed
OfferPublished(p) == localOffer[p] # <<>>

C7_ConnectedOnlyByEvents ==
  [][\A p \in Peers :
       connected'[p] # connected[p] => connectionState'[p] # connectionState[p]]_vars

\* a page became connected through createOffer and applyAnswer and has
\* switched its role since
C7_Witness ==
  /\ connected["A"]
  /\ OfferPublished("A")
  /\ pcRemote["A"].cur.type = "answer"
  /\ role["A"] = "guest"

\* ----------------------------------------------------------------- the chat

\* the chat entries the sendChat frames among frames put in the log
RECURSIVE LocalLog(_)
LocalLog(frames) ==
  IF frames = <<>> THEN <<>>
  ELSE LET fr == Last(frames)
           rest == LocalLog(SubSeq(frames, 1, Len(frames) - 1))
       IN IF ~fr.bin /\ fr.call = 0
          THEN Append(rest, ChatEntry("me", GetProp(JSONparse(fr.text).v, T_text).v))
          ELSE rest

\* page p has received frames of files only
NoRemoteMessages(p) ==
  \A i \in 1..Len(delivered[p]) :
    LET fr == delivered[p][i]
    IN fr.bin \/ OpensTransfer(fr) \/ IsEndFrame(fr)

\* C8: each sendChat that sends a frame appends one entry of the page itself
\* at once, whatever has reached the peer; with no message received the log
\* is the texts sent, in the order sent, each marked as the page's own.
C8_LocalEchoInOrder ==
  \A p \in Peers : NoRemoteMessages(p) => messages[p] = LocalLog(sent[p])

\* "a" then "b" are in the log of the sender while neither has been delivered
C8_Witness ==
  \E p \in Peers :
    /\ messages[p] = <<ChatEntry("me", JsStr(<<"a">>)), ChatEntry("me", JsStr(<<"b">>))>>
    /\ delivered[Other(p)] = <<>>
    /\ delivered[p] = <<>>

IsPrefix(a, b) == Len(a) <= Len(b) /\ SubSeq(b, 1, Len(a)) = a

SessionUnchanged(p) ==
  /\ UNCHANGED <<pcVars, chanVars, taskVars, sent, delivered>>
  /\ UNCHANGED <<role, dataChannelRef, localOffer, localAnswer, connected,
                 messages, outgoingText, sendingRef, downloads>>
  /\ \A q \in Peers \ {p} : toast'[q] = toast[q]

\* C10: applyAnswer or acceptOffer on text that JSON.parse rejects ends in
\* its catch, with the error toast, and leaves the session as it was:
\* nothing is applied to the connection, no answer is made or published, and
\* the connection state, the chat log and the open transfer are unchanged.
C10_MalformedPasteRejected ==
  [][\A p \in Peers : \A text \in PastedTexts(p) :
       ~JSONparse(text).ok =>
         /\ ApplyAnswer(p, text) =>
              toast'[p] = "Erreur: Reponse invalide." /\ SessionUnchanged(p)
         /\ AcceptOffer(p, text) =>
              toast'[p] = "Erreur: Offre invalide." /\ SessionUnchanged(p)]_vars

\* text that is no JSON has been pasted into the answer box of one page and
\* the offer box of the other, and both show the error
C10_Witness ==
  \E p \in Peers :
    /\ ~JSONparse(remoteAnswer[p]).ok
    /\ toast[p] = "Erreur: Reponse invalide."
    /\ ~JSONparse(remoteOffer[Other(p)]).ok
    /\ toast[Other(p)] = "Erreur: Offre invalide."
    /\ \A q \in Peers : pcChain[q] = <<>> /\ pcRemote[q] = NoDescs

\* --------------------------------------------------------------- gathering

\* C11: createOffer and acceptOffer publish the encoded local description
\* (localOffer, localAnswer) only when the gathering state of the connection
\* is 'complete'; no description is published while gathering is under way.
C11_PublishedAfterGathering ==
  [][\A p \in Peers :
       (localOffer'[p] # localOffer[p] \/ localAnswer'[p] # localAnswer[p])
       => iceGatheringState'[p] = "complete"]_vars

\* the offer of one page and the answer of the other to it are published
C11_Witness ==
  \E p \in Peers :
    /\ localOffer[p] # <<>>
    /\ localAnswer[Other(p)] # <<>>
    /\ pcRemote[Other(p)].cur.owner = p

\* ------------------------------------------------------ the frames of a file

\* the frames among frames that invocation k of sendFile sent, in order
RECURSIVE FramesOfCall(_, _)
FramesOfCall(frames, k) ==
  IF frames = <<>> THEN <<>>
  ELSE LET rest == FramesOfCall(SubSeq(frames, 1, Len(frames) - 1), k)
       IN IF Last(frames).call = k THEN Append(rest, Last(frames)) ELSE rest

\* bytes [16 KiB * j, 16 KiB * (j + 1)) of file id, cut at its end
ChunkAt(id, j) ==
  Window(id, 16 * 1024 * j, Min(16 * 1024 * (j + 1), FileSize(id)))

\* one file-meta, the chunks of file id by increasing offset, one file-end
FramesOfFile(id, p, k) ==
  LET n == (FileSize(id) + 16 * 1024 - 1) \div (16 * 1024)
  IN <<TextFrame(JSONstringify(MetaPayload(id)), p, k)>>
       \o [j \in 1..n |-> BinaryFrame(ChunkAt(id, j - 1), p, k)]
       \o <<TextFrame(JSONstringify(EndPayload), p, k)>>

\* invocation k of sendFile at page p is still suspended
Suspended(p, k) == \E j \in 1..Len(sendFiles[p]) : sendFiles[p][j].call = k

\* C12: the frames one sendFile hands to an open channel are one file-meta,
\* then the bytes of the file in chunks of 16 KiB by strictly increasing
\* offset (the last one shorter, none for an empty file), then one file-end:
\* at every moment a prefix of that sequence, and the whole of it once the
\* invocation has ended.
C12_SendFileFrameOrder ==
  \A p \in Peers : \A k \in 1..MaxCalls :
    LET frames == FramesOfCall(sent[p], k)
    IN frames # <<>> =>
         \E id \in FileIds :
           /\ IsPrefix(frames, FramesOfFile(id, p, k))
           /\ (~Suspended(p, k) /\ chanState[dataChannelRef[p]] = "open")
                => frames = FramesOfFile(id, p, k)

\* a file of three chunks has been sent whole
C12_Witness ==
  \E p \in Peers : \E k \in 1..MaxCalls :
    /\ ~Suspended(p, k)
    /\ FramesOfCall(sent[p], k) = FramesOfFile("m", p, k)
    /\ Len(FramesOfCall(sent[p], k)) = 5

\* ------------------------------------------------------------ reconnection

\* A connection becomes connected only after createOffer, acceptOffer and
\* applyAnswer have each been called, so while three inputs are counted no
\* page has called anything since the handshake.
NoCallSinceHandshake == calls = 3

\* C13: nothing reconnects on its own: once a 'failed' or 'disconnected'
\* event has taken a page out of the connected state, the page is not
\* connected again unless the handshake has been restarted by a call.
C13_NoReconnectWithoutRestart ==
  [][\A p \in Peers :
       (NoCallSinceHandshake /\ connectionState[p] \in {"disconnected", "failed"})
       => ~connected'[p]]_vars

\* ------------------------------------------------------- finalized files

\* the chunks among seq that arrived after its last file-meta or file-end
ChunksSinceBoundary(seq) ==
  LET bounds == {i \in 1..Len(seq) : OpensTransfer(seq[i]) \/ IsEndFrame(seq[i])}
      from == IF bounds = {} THEN 0
              ELSE CHOOSE i \in bounds : \A j \in bounds : j <= i
  IN ChunksOf(seq, from + 1, Len(seq))

\* page p handles a file-end in this step while a transfer is open
EndOfOpenTransfer(p) ==
  /\ delivered'[p] # delivered[p]
  /\ IsEndFrame(Last(delivered'[p]))
  /\ sendingRef[p].open

\* C14: a file is finalized only by a file-end handled while a transfer is
\* open, one file for each, holding the chunks buffered since the transfer
\* opened in the order they arrived, and the transfer is closed by it; no
\* other step produces a file, so a transfer whose file-end never arrives
\* yields none.
C14_FileOnlyAtFileEnd ==
  [][\A p \in Peers :
       IF EndOfOpenTransfer(p)
       THEN /\ downloads'[p] =
                 Append(downloads[p], Blob(ChunksSinceBoundary(delivered[p])))
            /\ sendingRef'[p] = NoTransfer
       ELSE downloads'[p] = downloads[p]]_vars

\* one file with bytes in it has been finalized, the transfer is closed,
\* and a chunk that came after it waits in a transfer of its own
C14_Witness ==
  \E p \in Peers :
    /\ Len(downloads[p]) = 1
    /\ downloads[p][1] # <<>>
    /\ \E i \in 1..Len(delivered[p]) :
         /\ IsEndFrame(delivered[p][i])
         /\ \A j \in (i + 1)..Len(delivered[p]) : delivered[p][j].bin

\* ------------------------------------------------- chat across the channel

\* the texts of the entries of log marked who, in the order of the log
RECURSIVE TextsOf(_, _)
TextsOf(who, log) ==
  IF log = <<>> THEN <<>>
  ELSE IF Head(log).from = who
       THEN <<Head(log).text>> \o TextsOf(who, Tail(log))
       ELSE TextsOf(who, Tail(log))

\* the texts of the chat frames among frames, in the order sent
RECURSIVE ChatTextsSent(_)
ChatTextsSent(frames) ==
  IF frames = <<>> THEN <<>>
  ELSE LET fr == Head(frames)
       IN IF ~fr.bin /\ fr.call = 0
          THEN <<GetProp(JSONparse(fr.text).v, T_text).v>> \o ChatTextsSent(Tail(frames))
          ELSE ChatTextsSent(Tail(frames))

\* every frame page p has handled was sent by the page at the other end
OnlyPeerFrames(p) ==
  \A i \in 1..Len(delivered[p]) : delivered[p][i].from = Other(p)

\* C15: between two pages, the entries of the peer in the log of the receiver
\* are always a prefix of the texts of the chat frames the other page sent,
\* in the order sent, also when they travel among the frames of a file.
C15_RemoteChatIsPrefixOfSent ==
  \A p \in Peers :
    OnlyPeerFrames(p) =>
      IsPrefix(TextsOf("peer", messages[p]), ChatTextsSent(sent[Other(p)]))

\* a chat frame has arrived between the file-meta and the file-end of a file
\* that is still being received, and its text is in the log of the receiver
C15_Witness ==
  \E p \in Peers :
    /\ OnlyPeerFrames(p)
    /\ sendingRef[p].open
    /\ sendingRef[p].buffer # <<>>
    /\ TextsOf("peer", messages[p]) = <<JsStr(<<"a">>)>>
    /\ \E i \in 1..Len(delivered[p]) : OpensTransfer(delivered[p][i])
    /\ ~delivered[p][Len(delivered[p])].bin

\* ------------------------------------------- connection events and buffers

\* C16: a connection event (connected, disconnected, failed) at a page leaves
\* its chat log, the transfer it is receiving and the files it has received
\* as they were.
C16_ConnectionEventKeepsBuffers ==
  [][\A p \in Peers :
       connectionState'[p] # connectionState[p]
       => /\ messages'[p] = messages[p]
          /\ sendingRef'[p] = sendingRef[p]
          /\ downloads'[p] = downloads[p]]_vars

\* the page shows the loss of its connection while it holds a chat entry
\* and the chunks of a file whose file-end has not come
C16_Witness ==
  \E p \in Peers :
    /\ connectionState[p] \in {"disconnected", "failed"}
    /\ toast[p] = "Connexion perdue"
    /\ messages[p] # <<>>
    /\ sendingRef[p].open
    /\ sendingRef[p].buffer # <<>>

\* ------------------------------------------------ chat among file frames

\* a frame of a file: a file-meta, a chunk or a file-end
IsFileFrame(fr) == fr.bin \/ OpensTransfer(fr) \/ IsEndFrame(fr)

\* seq ends with the file-end of one sendFile(id), and from its file-meta on
\* seq holds the frames of that sendFile and chat frames of the same sender
InterleavedTransfer(seq, id) ==
  /\ seq # <<>>
  /\ LET end == Last(seq)
     IN /\ IsEndFrame(end)
        /\ end.call > 0
        /\ \E i \in 1..Len(seq) :
             /\ IsMetaFrameOf(seq[i], id)
             /\ seq[i].call = end.call
             /\ \A j \in i..Len(seq) :
                  /\ seq[j].from = end.from
                  /\ seq[j].call = end.call \/ (seq[j].call = 0 /\ ~IsFileFrame(seq[j]))

\* C17: at the receiver a chat frame or a text frame that does not decode
\* leaves the transfer being received and the received files unchanged, and
\* a file-meta, a chunk or a file-end leaves the chat log unchanged; so a
\* file whose frames arrive with chat frames of its sender among them is
\* finalized byte for byte as it was sent.
C17_ChatAndFileIndependent ==
  [][\A p \in Peers :
       delivered'[p] # delivered[p] =>
         /\ IF IsFileFrame(Last(delivered'[p]))
            THEN messages'[p] = messages[p]
            ELSE sendingRef'[p] = sendingRef[p] /\ downloads'[p] = downloads[p]
         /\ \A id \in FileIds :
              InterleavedTransfer(delivered'[p], id) =>
                downloads'[p] = Append(downloads[p], FileBytes(id))]_vars

\* a file of two chunks has been finalized whole although a chat frame of
\* its sender arrived between its chunks
C17_Witness ==
  \E p \in Peers :
    LET seq == delivered[p]
    IN /\ InterleavedTransfer(seq, "d")
       /\ Len(seq) = 5
       /\ seq[2].bin /\ ~seq[3].bin /\ seq[4].bin
       /\ downloads[p] = <<FileBytes("d")>>
       /\ messages[p] = <<ChatEntry("peer", JsStr(<<"a">>))>>

\* ------------------------------------------------- the channel of an offer

\* pc.createOffer() of a createOffer invocation at page p resolves in this
\* step with an offer
OfferGenerated(p) ==
  /\ pcChain[p] # <<>>
  /\ Head(pcChain[p]).op = "createOffer"
  /\ Len(pcChain'[p]) = Len(pcChain[p])
  /\ Last(pcChain'[p]) = Pending("createOffer", "setLocal", "offer", Last(pcChain'[p]).sdp)
  /\ SubSeq(pcChain'[p], 1, Len(pcChain[p]) - 1) = Tail(pcChain[p])

\* C18: when createOffer generates an offer the page already holds a data
\* channel, and however many times createOffer is called, also while
\* earlier calls are still pending, a page creates at most one channel.
C18_OneChannelBeforeOffer ==
  [][\A p \in Peers :
       /\ created'[p] <= 1
       /\ OfferGenerated(p) =>
            /\ dataChannelRef[p] # "null"
            /\ chanState[dataChannelRef[p]] # "none"]_vars

\* two createOffer calls of one page are pending at once, the first has its
\* offer, and the page has created one channel
C18_Witness ==
  \E p \in Peers :
    /\ Len(pcChain[p]) = 2
    /\ pcChain[p][1].op = "createOffer"
    /\ pcChain[p][2] = Pending("createOffer", "setLocal", "offer", pcChain[p][2].sdp)
    /\ created[p] = 1
    /\ dataChannelRef[p] = p

\* ------------------------------------------------ sendChat and its echo

\* text has a character that is not a space
NotBlank(text) == \E i \in 1..Len(text) : text[i] # " "

MetaEmitted(p, k) == FramesOfCall(sent[p], k) # <<>>

\* invocation k of sendFile at page p has sent its file-end and has returned
EndEmitted(p, k) ==
  /\ MetaEmitted(p, k)
  /\ IsEndFrame(Last(FramesOfCall(sent[p], k)))
  /\ ~Suspended(p, k)

\* C20: with every suspended sendFile eventually resumed and the channel
\* staying open, each sendFile that has sent its file-meta eventually sends
\* its file-end and returns, whatever the size of the file and whatever
\* frames arrive and chats are sent while it waits between chunks.
C20_SendFileTerminates ==
  \A p \in Peers : \A k \in 1..MaxCalls : MetaEmitted(p, k) ~> EndEmitted(p, k)

\* a sendFile of a file of two chunks has sent its file-end and returned,
\* the page having sent a chat while it waited between the two chunks
C20_Witness ==
  \E p \in Peers :
    /\ EndEmitted(p, 1)
    /\ Len(sent[p]) = 5
    /\ sent[p][2].bin /\ sent[p][3].call = 0 /\ sent[p][4].bin
    /\ Last(sent[p]).call = 1
    /\ FramesOfCall(sent[p], 1) = FramesOfFile("d", p, 1)
====
